---- MODULE Spec2Model ----
(***************************************************************************)
(* A model of rllm's numerical pre-encoder (LinearEncoder) and of the      *)
(* TabTransformer example driver.                                          *)
(*                                                                         *)
(*   SpecEncoder : construction (post_init) and encode_forward of          *)
(*                 rllm/nn/pre_encoder/linear_encoder.py                   *)
(*   SpecHead    : the pooling head of TabTransformer.forward              *)
(*   SpecDriver  : the train / test / epoch loop of                        *)
(*                 examples/tab_transformer.py                             *)
(*                                                                         *)
(* Tensors are records [shape, at]: shape is the sequence of dimension     *)
(* sizes, at maps every index tuple to the element.  Elements are exact    *)
(* rationals [n, d] (d > 0); d = 0 marks the inf/nan of a division by 0;   *)
(* floating-point rounding is abstracted to exact arithmetic.              *)
(***************************************************************************)
EXTENDS Integers, Sequences, FiniteSets, TLC

VARIABLES
    \* ---- LinearEncoder ----
    enc_pc,        \* "new" | "ready" | "called" | "failed" (construction raised)
    num_columns,   \* column count of the numerical type in the table (what batches carry)
    stats_list,    \* self.stats_list
    in_dim,        \* self.in_dim
    out_dim,       \* self.out_dim
    activate,      \* self.activate
    mean,          \* buffer "mean"
    std,           \* buffer "std"
    weight,        \* Parameter weight [num_cols, in_dim, out_dim]
    bias,          \* Parameter bias   [num_cols, out_dim]
    feat,          \* argument of the last encode_forward call
    result,        \* what the last encode_forward call returned (or Err)
    \* ---- model head ----
    fc,            \* self.fc: [weight |-> [out_dim, hidden_dim], bias |-> [out_dim]]
    head_x,        \* contextualized tensor [batch, C, hidden_dim] given to the head
    head_perm,     \* permutation of the column axis applied to head_x
    head_out,      \* head output on head_x
    head_out_perm, \* head output on the permuted head_x
    \* ---- driver ----
    drv_pc,        \* position in the script
    epoch,         \* loop variable of the epoch loop
    batch_idx,     \* position in train_loader inside train()
    grad,          \* .grad of every tensor the optimizer holds (None before backward)
    grad_fresh,    \* history: a backward ran since the last optimizer.step
    val_metric,    \* val_metric of the current epoch
    test_metric,   \* test_metric of the current epoch
    best_val_metric,
    best_test_metric,
    history        \* history: <<val_metric, test_metric>> of every finished epoch

vars == <<enc_pc, num_columns, stats_list, in_dim, out_dim, activate, mean, std,
          weight, bias, feat, result,
          fc, head_x, head_perm, head_out, head_out_perm,
          drv_pc, epoch, batch_idx, grad, grad_fresh, val_metric, test_metric,
          best_val_metric, best_test_metric, history>>

encVars == <<enc_pc, num_columns, stats_list, in_dim, out_dim, activate, mean, std,
             weight, bias, feat, result>>

headVars == <<fc, head_x, head_perm, head_out, head_out_perm>>

drvVars == <<drv_pc, epoch, batch_idx, grad, grad_fresh, val_metric, test_metric,
             best_val_metric, best_test_metric, history>>

(***************************************************************************)
(* Bounds of the model.                                                    *)
(***************************************************************************)
MaxCols == 2

MaxBatch == 1

\* columns, width and classes of the tensors given to the model head
MaxPoolCols == 3

HiddenDim == 2

NumClasses == 2

\* epochs run, batches of train_loader, rows of val_loader and of test_loader
Epochs == 2

TrainBatches == 2

ValSize == 2

TestSize == 2

\* 1e-6 expressed as 1 / EpsDen
EpsDen == 1000000

None == "None"

(***************************************************************************)
(* Exact rationals.                                                        *)
(***************************************************************************)
Q(a, b) == [n |-> a, d |-> b]

QInt(a) == Q(a, 1)

\* a zero denominator marks the non-finite IEEE values
NaN == Q(0, 0)

Inf == Q(1, 0)

IsFinite(x) == x.d # 0

QAdd(x, y) ==
    IF ~IsFinite(x) \/ ~IsFinite(y) THEN NaN
    ELSE IF x.d = y.d THEN Q(x.n + y.n, x.d)
    ELSE Q(x.n * y.d + y.n * x.d, x.d * y.d)

QSub(x, y) ==
    IF ~IsFinite(x) \/ ~IsFinite(y) THEN NaN
    ELSE IF x.d = y.d THEN Q(x.n - y.n, x.d)
    ELSE Q(x.n * y.d - y.n * x.d, x.d * y.d)

QMul(x, y) ==
    IF ~IsFinite(x) \/ ~IsFinite(y) THEN NaN
    ELSE Q(x.n * y.n, x.d * y.d)

\* IEEE division: x / 0 is inf (nan for 0 / 0), never an exception
QDiv(x, y) ==
    IF ~IsFinite(x) \/ ~IsFinite(y) THEN NaN
    ELSE IF y.n = 0 THEN (IF x.n = 0 THEN NaN ELSE Inf)
    ELSE IF y.n > 0 THEN Q(x.n * y.d, x.d * y.n)
    ELSE Q(-(x.n * y.d), x.d * (-y.n))

QIsZero(x) == IsFinite(x) /\ x.n = 0

Abs(a) == IF a < 0 THEN -a ELSE a

\* |x - c| <= 1 / tolDen, for an integer c
QWithin(x, c, tolDen) == IsFinite(x) /\ Abs(x.n - c * x.d) <= x.d \div tolDen

(***************************************************************************)
(* Tensors with torch's broadcasting.                                      *)
(***************************************************************************)
Err == [error |-> TRUE]

IsTensor(t) == "shape" \in DOMAIN t

Rank(t) == Len(t.shape)

Indices(s) ==
    IF Len(s) = 0 THEN {<<>>}
    ELSE IF Len(s) = 1 THEN {<<i>> : i \in 1..s[1]}
    ELSE IF Len(s) = 2 THEN {<<i, j>> : i \in 1..s[1], j \in 1..s[2]}
    ELSE {<<i, j, k>> : i \in 1..s[1], j \in 1..s[2], k \in 1..s[3]}

\* the tensor of shape s with elements a
MkTensor(s, a) == [shape |-> s, at |-> a]

\* the shape with 1s prepended up to rank r
PadShape(s, r) == [k \in 1..r |-> IF k <= r - Len(s) THEN 1 ELSE s[k - (r - Len(s))]]

MaxOf(a, b) == IF a >= b THEN a ELSE b

BroadcastOk(s, t) ==
    LET r == MaxOf(Len(s), Len(t))
        ps == PadShape(s, r)
        pt == PadShape(t, r)
    IN  \A k \in 1..r : ps[k] = pt[k] \/ ps[k] = 1 \/ pt[k] = 1

BroadcastShape(s, t) ==
    LET r == MaxOf(Len(s), Len(t))
        ps == PadShape(s, r)
        pt == PadShape(t, r)
    IN  [k \in 1..r |-> IF ps[k] = 1 THEN pt[k] ELSE ps[k]]

\* the index into a tensor of shape s that a result index idx reads
BIndex(s, idx) ==
    LET off == Len(idx) - Len(s)
        at(k) == IF s[k] = 1 THEN 1 ELSE idx[k + off]
    IN  IF Len(s) = 0 THEN <<>>
        ELSE IF Len(s) = 1 THEN <<at(1)>>
        ELSE IF Len(s) = 2 THEN <<at(1), at(2)>>
        ELSE <<at(1), at(2), at(3)>>

\* a - b with broadcasting
TSub(a, b) ==
    IF ~IsTensor(a) \/ ~IsTensor(b) THEN Err
    ELSE IF ~BroadcastOk(a.shape, b.shape) THEN Err
    ELSE LET s == BroadcastShape(a.shape, b.shape)
         IN  MkTensor(s, [idx \in Indices(s) |->
                 QSub(a.at[BIndex(a.shape, idx)], b.at[BIndex(b.shape, idx)])])

\* a / b with broadcasting
TDiv(a, b) ==
    IF ~IsTensor(a) \/ ~IsTensor(b) THEN Err
    ELSE IF ~BroadcastOk(a.shape, b.shape) THEN Err
    ELSE LET s == BroadcastShape(a.shape, b.shape)
         IN  MkTensor(s, [idx \in Indices(s) |->
                 QDiv(a.at[BIndex(a.shape, idx)], b.at[BIndex(b.shape, idx)])])

\* a + b with broadcasting
TAdd(a, b) ==
    IF ~IsTensor(a) \/ ~IsTensor(b) THEN Err
    ELSE IF ~BroadcastOk(a.shape, b.shape) THEN Err
    ELSE LET s == BroadcastShape(a.shape, b.shape)
         IN  MkTensor(s, [idx \in Indices(s) |->
                 QAdd(a.at[BIndex(a.shape, idx)], b.at[BIndex(b.shape, idx)])])

\* t.unsqueeze(-1)
Unsqueeze(t) ==
    IF ~IsTensor(t) THEN Err
    ELSE LET f(idx) == t.at[SubSeq(idx, 1, Len(idx) - 1)]
         IN  MkTensor(Append(t.shape, 1),
                 [idx \in Indices(Append(t.shape, 1)) |-> f(idx)])

RECURSIVE SumTo(_, _)
SumTo(K, term) == IF K = 0 THEN QInt(0) ELSE QAdd(SumTo(K - 1, term), term[K])

\* torch.einsum("ijk,jkl->ijl", a, w): both operands must be 3-D; the shared
\* labels j and k broadcast when one side has size 1
Einsum(a, w) ==
    IF ~IsTensor(a) \/ ~IsTensor(w) THEN Err
    ELSE IF Rank(a) # 3 \/ Rank(w) # 3 THEN Err
    ELSE IF ~BroadcastOk(<<a.shape[2], a.shape[3]>>, <<w.shape[1], w.shape[2]>>) THEN Err
    ELSE LET jk == BroadcastShape(<<a.shape[2], a.shape[3]>>, <<w.shape[1], w.shape[2]>>)
             K == jk[2]
             f(idx) ==
                 SumTo(K, [k \in 1..K |->
                     QMul(a.at[BIndex(a.shape, <<idx[1], idx[2], k>>)],
                          w.at[BIndex(w.shape, <<idx[2], k, idx[3]>>)])])
         IN  MkTensor(<<a.shape[1], jk[1], w.shape[3]>>,
                 [idx \in Indices(<<a.shape[1], jk[1], w.shape[3]>>) |-> f(idx)])

\* t / c for a python number c
TDivScalar(t, c) ==
    IF ~IsTensor(t) THEN Err
    ELSE MkTensor(t.shape, [idx \in Indices(t.shape) |-> QDiv(t.at[idx], QInt(c))])

ReLU(x) == IF IsFinite(x) /\ x.n < 0 THEN Q(0, x.d) ELSE x

\* self.activate(x): None, or an elementwise module (torch.nn.ReLU)
Activate(act, t) ==
    IF act = None \/ ~IsTensor(t) THEN t
    ELSE MkTensor(t.shape, [idx \in Indices(t.shape) |-> ReLU(t.at[idx])])

(***************************************************************************)
(* LinearEncoder                                                           *)
(***************************************************************************)
\* per-column statistics records the table may hold; the last one lacks STD
StatRecords ==
    { [MEAN |-> 30, STD |-> 10], [MEAN |-> 40, STD |-> 0], [MEAN |-> 30] }

StatsLists == UNION {[1..m -> StatRecords] : m \in 0..MaxCols}

\* the <<in_dim, out_dim>> pairs encoders are constructed with
EncoderDims == {<<1, 2>>, <<2, 1>>}

Activations == {None, "ReLU"}

\* raw values a batch may hold
RawVals == {30, 40}

\* outcomes of torch.nn.init.normal_ the model follows
WeightDraws == {"ones", "mixed"}

DrawnWeight(draw, j, k, l) == IF draw = "ones" THEN 1 ELSE j + k - 2 * l

\* stats[StatType.MEAN] / stats[StatType.STD] raise KeyError on a missing key
HasStats(stats) == \A c \in 1..Len(stats) : {"MEAN", "STD"} \subseteq DOMAIN stats[c]

\* torch.tensor([stats[StatType.MEAN] for stats in self.stats_list])
MeanBuffer(stats) ==
    MkTensor(<<Len(stats)>>, [idx \in Indices(<<Len(stats)>>) |-> QInt(stats[idx[1]].MEAN)])

\* STD + 1e-6, buggy variant: the epsilon is left out
StdValueNoEps(s) == QInt(s)

\* STD + 1e-6
StdValue(s) == Q(s * EpsDen + 1, EpsDen)

\* torch.tensor([stats[StatType.STD] for stats in self.stats_list]) + 1e-6
StdBuffer(stats) ==
    MkTensor(<<Len(stats)>>, [idx \in Indices(<<Len(stats)>>) |-> StdValue(stats[idx[1]].STD)])

\* Parameter(torch.empty(num_cols, in_dim, out_dim)), then normal_
InitWeight(num_cols, ind, outd, draw) ==
    LET f(idx) == QInt(DrawnWeight(draw, idx[1], idx[2], idx[3]))
    IN  MkTensor(<<num_cols, ind, outd>>,
            [idx \in Indices(<<num_cols, ind, outd>>) |-> f(idx)])

\* Parameter(torch.empty(num_cols, out_dim)), then zeros_
InitBias(num_cols, outd) ==
    MkTensor(<<num_cols, outd>>, [idx \in Indices(<<num_cols, outd>>) |-> QInt(0)])

\* buggy variant: the 2-D branch forgets unsqueeze(-1)
StandardizeNoExpand(x, mu, sigma) ==
    IF Rank(x) = 2 THEN TDiv(TSub(x, mu), sigma)
    ELSE IF Rank(x) = 3 THEN TDiv(TSub(x, Unsqueeze(mu)), Unsqueeze(sigma))
    ELSE x

\* buggy variant: the mean is subtracted but the result is not divided by std
StandardizeNoScale(x, mu, sigma) ==
    IF Rank(x) = 2 THEN Unsqueeze(TSub(x, mu))
    ELSE IF Rank(x) = 3 THEN TSub(x, Unsqueeze(mu))
    ELSE x

\* feat after the ndim branches of encode_forward: the standardized value
Standardize(x, mu, sigma) ==
    IF Rank(x) = 2 THEN Unsqueeze(TDiv(TSub(x, mu), sigma))
    ELSE IF Rank(x) = 3 THEN TDiv(TSub(x, Unsqueeze(mu)), Unsqueeze(sigma))
    ELSE x

\* x_lin: buggy variant that contracts weight over the column axis as well
\* ("ijk,mkl->ijl"), mixing the columns' projections
ProjectMixed(z, w, ind) ==
    IF ~IsTensor(z) \/ Rank(z) # 3 THEN Err
    ELSE IF ~BroadcastOk(<<z.shape[3]>>, <<w.shape[2]>>) THEN Err
    ELSE LET K == BroadcastShape(<<z.shape[3]>>, <<w.shape[2]>>)[1]
             M == w.shape[1]
             f(idx) ==
                 SumTo(M, [m \in 1..M |->
                     SumTo(K, [k \in 1..K |->
                         QMul(z.at[BIndex(z.shape, <<idx[1], idx[2], k>>)],
                              w.at[BIndex(w.shape, <<m, k, idx[3]>>)])])])
         IN  TDivScalar(MkTensor(<<z.shape[1], z.shape[2], w.shape[3]>>,
                 [idx \in Indices(<<z.shape[1], z.shape[2], w.shape[3]>>) |-> f(idx)]), ind)

\* x_lin = torch.einsum("ijk,jkl->ijl", feat, self.weight) / self.in_dim
Project(z, w, ind) == TDivScalar(Einsum(z, w), ind)

\* LinearEncoder.encode_forward, as a function of the module's state
EncodeForward(x, mu, sigma, w, b, ind, act) ==
    Activate(act, TAdd(Project(Standardize(x, mu, sigma), w, ind), b))

\* the per-type raw tensors a batch of a table with n columns may deliver:
\* [batch, n], pre-expanded [batch, n, 1], and a single row [n]
Shapes(n) == {<<bsz, n>> : bsz \in 0..MaxBatch} \cup {<<bsz, n, 1>> : bsz \in 0..MaxBatch}
                 \cup {<<n>>}

FeatInputs(n) ==
    UNION { {[shape |-> s, at |-> a] : a \in [Indices(s) -> {QInt(v) : v \in RawVals}]}
            : s \in Shapes(n) }

NoTensor == [none |-> TRUE]

\* a fresh process: no encoder constructed yet; the head and the driver are not run
EncInit ==
    /\ enc_pc = "new"
    /\ num_columns \in 0..MaxCols
    /\ stats_list = <<>>
    /\ in_dim = 0
    /\ out_dim = 0
    /\ activate = None
    /\ mean = NoTensor
    /\ std = NoTensor
    /\ weight = NoTensor
    /\ bias = NoTensor
    /\ feat = NoTensor
    /\ result = NoTensor
    /\ fc = NoTensor
    /\ head_x = NoTensor
    /\ head_perm = <<>>
    /\ head_out = NoTensor
    /\ head_out_perm = NoTensor
    /\ drv_pc = "idle"
    /\ epoch = 0
    /\ batch_idx = 0
    /\ grad = NoTensor
    /\ grad_fresh = FALSE
    /\ val_metric = 0
    /\ test_metric = 0
    /\ best_val_metric = 0
    /\ best_test_metric = 0
    /\ history = <<>>

\* LinearEncoder(in_dim, out_dim, stats_list, activate=...) followed by post_init():
\* no argument declares a column count, num_cols is len(stats_list)
Construct(stats, ind, outd, act, draw) ==
    /\ enc_pc = "new"
    /\ stats_list' = stats
    /\ in_dim' = ind
    /\ out_dim' = outd
    /\ activate' = act
    /\ IF HasStats(stats)
       THEN /\ mean' = MeanBuffer(stats)
            /\ std' = StdBuffer(stats)
            /\ weight' = InitWeight(Len(stats), ind, outd, draw)
            /\ bias' = InitBias(Len(stats), outd)
            /\ enc_pc' = "ready"
       ELSE /\ UNCHANGED <<mean, std, weight, bias>>
            /\ enc_pc' = "failed"
    /\ UNCHANGED <<num_columns, feat, result, headVars, drvVars>>

\* the call encoder.encode_forward(x); it leaves the module's state alone, so
\* one call per run is followed
Forward(x) ==
    /\ enc_pc = "ready"
    /\ enc_pc' = "called"
    /\ feat' = x
    /\ result' = EncodeForward(x, mean, std, weight, bias, in_dim, activate)
    /\ UNCHANGED <<num_columns, stats_list, in_dim, out_dim, activate,
                   mean, std, weight, bias, headVars, drvVars>>

EncConstruct ==
    \E stats \in StatsLists, dims \in EncoderDims,
       act \in Activations, draw \in WeightDraws :
         Construct(stats, dims[1], dims[2], act, draw)

EncForward == \E x \in FeatInputs(num_columns) : Forward(x)

EncNext == EncConstruct \/ EncForward

SpecEncoder == EncInit /\ [][EncNext]_vars

(***************************************************************************)
(* The model head: out = self.fc(x.mean(dim=1))                            *)
(***************************************************************************)
\* column embeddings the conv stack may deliver: constant -1, constant 2, or 1..hidden
Embeddings == {"lo", "hi", "ramp"}

EmbeddingAt(kind, h) == IF kind = "lo" THEN -1 ELSE IF kind = "hi" THEN 2 ELSE h

\* outcomes of torch.nn.Linear's initialization the model follows
FcDraws == {"a", "b"}

\* torch.nn.Linear(hidden_dim, out_dim)
InitFc(draw) ==
    LET wf(idx) == QInt(IF draw = "a" THEN idx[1] + idx[2] ELSE idx[1] - 2 * idx[2])
        bf(idx) == QInt(IF draw = "a" THEN 0 ELSE idx[1])
    IN  [weight |-> MkTensor(<<NumClasses, HiddenDim>>,
                        [idx \in Indices(<<NumClasses, HiddenDim>>) |-> wf(idx)]),
         bias |-> MkTensor(<<NumClasses>>, [idx \in Indices(<<NumClasses>>) |-> bf(idx)])]

\* buggy variant: pools by taking the first column instead of the mean
FirstColumn(x) ==
    LET f(idx) == x.at[<<idx[1], 1, idx[2]>>]
    IN  MkTensor(<<x.shape[1], x.shape[3]>>,
            [idx \in Indices(<<x.shape[1], x.shape[3]>>) |-> f(idx)])

\* x.mean(dim=1) of a [batch, C, hidden] tensor
MeanDim1(x) ==
    LET C == x.shape[2]
        f(idx) == QDiv(SumTo(C, [c \in 1..C |-> x.at[<<idx[1], c, idx[2]>>]]), QInt(C))
    IN  MkTensor(<<x.shape[1], x.shape[3]>>,
            [idx \in Indices(<<x.shape[1], x.shape[3]>>) |-> f(idx)])

\* torch.nn.Linear.forward: y = x W^T + b
Linear(lin, x) ==
    LET H == x.shape[2]
        f(idx) ==
            QAdd(SumTo(H, [h \in 1..H |-> QMul(x.at[<<idx[1], h>>], lin.weight.at[<<idx[2], h>>])]),
                 lin.bias.at[<<idx[2]>>])
    IN  MkTensor(<<x.shape[1], lin.weight.shape[1]>>,
            [idx \in Indices(<<x.shape[1], lin.weight.shape[1]>>) |-> f(idx)])

\* the last two lines of TabTransformer.forward, on the output x of the conv stack
HeadForward(lin, x) == Linear(lin, MeanDim1(x))

ColumnPermutations(n) == {p \in [1..n -> 1..n] : \A a, b \in 1..n : p[a] = p[b] => a = b}

\* x with its column axis reordered: column c of the result is column p[c] of x
PermuteColumns(x, p) ==
    MkTensor(x.shape, [idx \in Indices(x.shape) |-> x.at[<<idx[1], p[idx[2]], idx[3]>>]])

\* the [1, C, hidden] tensors whose columns are the embeddings cols[1..C]
ContextTensor(cols) ==
    LET f(idx) == QInt(EmbeddingAt(cols[idx[2]], idx[3]))
    IN  MkTensor(<<1, Len(cols), HiddenDim>>,
            [idx \in Indices(<<1, Len(cols), HiddenDim>>) |-> f(idx)])

ContextTensors ==
    UNION { {ContextTensor(cols) : cols \in [1..C -> Embeddings]} : C \in 1..MaxPoolCols }

\* a constructed TabTransformer whose head has not run; no encoder call, no training
HeadInit ==
    /\ fc \in {InitFc(draw) : draw \in FcDraws}
    /\ head_x = NoTensor
    /\ head_perm = <<>>
    /\ head_out = NoTensor
    /\ head_out_perm = NoTensor
    /\ enc_pc = "new"
    /\ num_columns = 0
    /\ stats_list = <<>>
    /\ in_dim = 0
    /\ out_dim = 0
    /\ activate = None
    /\ mean = NoTensor
    /\ std = NoTensor
    /\ weight = NoTensor
    /\ bias = NoTensor
    /\ feat = NoTensor
    /\ result = NoTensor
    /\ drv_pc = "idle"
    /\ epoch = 0
    /\ batch_idx = 0
    /\ grad = NoTensor
    /\ grad_fresh = FALSE
    /\ val_metric = 0
    /\ test_metric = 0
    /\ best_val_metric = 0
    /\ best_test_metric = 0
    /\ history = <<>>

\* the head applied to a contextualized tensor x
HeadOnTensor(x) ==
    /\ head_x = NoTensor
    /\ head_x' = x
    /\ head_out' = HeadForward(fc, x)
    /\ head_perm' = <<>>
    /\ head_out_perm' = NoTensor
    /\ UNCHANGED <<fc, encVars, drvVars>>

\* the head applied to the same tensor with its column axis permuted by p
HeadOnPermuted(p) ==
    /\ IsTensor(head_x)
    /\ head_out_perm = NoTensor
    /\ head_perm' = p
    /\ head_out_perm' = HeadForward(fc, PermuteColumns(head_x, p))
    /\ UNCHANGED <<fc, head_x, head_out, encVars, drvVars>>

HeadRun == \E x \in ContextTensors : HeadOnTensor(x)

HeadRunPermuted ==
    /\ IsTensor(head_x)
    /\ \E p \in ColumnPermutations(head_x.shape[2]) : HeadOnPermuted(p)

HeadNext == HeadRun \/ HeadRunPermuted

SpecHead == HeadInit /\ [][HeadNext]_vars

\* C7: the head's output on a contextualized tensor and on that tensor with its
\* column axis permuted are the same.
C7_PoolingSymmetry ==
    IsTensor(head_out_perm) => head_out_perm = head_out

\* C7 witness: three columns reordered by a permutation that moves column 1,
\* where the first two columns differ
C7_Witness ==
    /\ IsTensor(head_out_perm)
    /\ head_x.shape[2] = 3
    /\ head_perm[1] = 2
    /\ \E h \in 1..HiddenDim : head_x.at[<<1, 1, h>>] # head_x.at[<<1, 2, h>>]

(***************************************************************************)
(* The driver: optimizer, train(), test() and the epoch loop               *)
(***************************************************************************)
\* the statistics of the table's numerical column
DriverStats == <<[MEAN |-> 30, STD |-> 10]>>

\* tensors registered with register_buffer
Buffers == {"mean", "std"}

\* buggy variant: the normalization buffers are registered as Parameters too
ModelParametersWithBuffers == {"weight", "bias", "fc.weight", "fc.bias", "mean", "std"}

\* model.parameters(): the tensors created as Parameter (encoder weight and
\* bias, the head's Linear); buffers are not among them
ModelParameters == {"weight", "bias", "fc.weight", "fc.bias"}

TensorNames == ModelParameters \cup Buffers

NoGrad == [none |-> TRUE]

HasGrad(name) == "g" \in DOMAIN grad[name]

\* gradients a backward pass may leave (the same value in every element)
GradVals == {-1, 1}

\* t - g in every element
Shift(t, g) ==
    MkTensor(t.shape, [idx \in Indices(t.shape) |-> QSub(t.at[idx], QInt(g))])

\* optimizer.step() on one tensor: updated when the optimizer holds it and its
\* .grad is not None
StepTensor(name, t) ==
    IF name \in ModelParameters /\ HasGrad(name) THEN Shift(t, grad[name].g) ELSE t

\* accuracy = correct / total of one test(loader) call
Accuracies(total) == {Q(correct, total) : correct \in 0..total}

QGreater(x, y) == x.n * y.d > y.n * x.d

\* the script up to the epoch loop: model and optimizer are constructed,
\* best_val_metric = best_test_metric = 0, the first epoch is about to train
DrvInit ==
    /\ enc_pc = "ready"
    /\ num_columns = 1
    /\ stats_list = DriverStats
    /\ in_dim = 1
    /\ out_dim = HiddenDim
    /\ activate = None
    /\ mean = MeanBuffer(DriverStats)
    /\ std = StdBuffer(DriverStats)
    /\ weight = InitWeight(1, 1, HiddenDim, "ones")
    /\ bias = InitBias(1, HiddenDim)
    /\ feat = NoTensor
    /\ result = NoTensor
    /\ fc \in {InitFc(draw) : draw \in FcDraws}
    /\ head_x = NoTensor
    /\ head_perm = <<>>
    /\ head_out = NoTensor
    /\ head_out_perm = NoTensor
    /\ drv_pc = "train_forward"
    /\ epoch = 1
    /\ batch_idx = 1
    /\ grad = [name \in TensorNames |-> NoGrad]
    /\ grad_fresh = FALSE
    /\ val_metric = QInt(0)
    /\ test_metric = QInt(0)
    /\ best_val_metric = QInt(0)
    /\ best_test_metric = QInt(0)
    /\ history = <<>>

modelTensors == <<mean, std, weight, bias, fc>>

drvFrame == <<enc_pc, num_columns, stats_list, in_dim, out_dim, activate, feat, result,
              head_x, head_perm, head_out, head_out_perm>>

\* train(): pred = model.forward(x); loss = F.cross_entropy(pred, y.long())
TrainForward ==
    /\ drv_pc = "train_forward"
    /\ drv_pc' = "zero_grad"
    /\ UNCHANGED <<modelTensors, drvFrame, epoch, batch_idx, grad, grad_fresh, val_metric,
                   test_metric, best_val_metric, best_test_metric, history>>

\* train(): optimizer.zero_grad()
ZeroGrad ==
    /\ drv_pc = "zero_grad"
    /\ grad' = [name \in TensorNames |-> IF name \in ModelParameters THEN NoGrad ELSE grad[name]]
    /\ drv_pc' = "backward"
    /\ UNCHANGED <<modelTensors, drvFrame, epoch, batch_idx, grad_fresh, val_metric,
                   test_metric, best_val_metric, best_test_metric, history>>

\* train(): loss.backward() (and the loss bookkeeping, which feeds nothing back)
Backward(g) ==
    /\ drv_pc = "backward"
    /\ grad' = [name \in TensorNames |->
                   IF name \in ModelParameters THEN [g |-> g] ELSE grad[name]]
    /\ grad_fresh' = TRUE
    /\ drv_pc' = "step"
    /\ UNCHANGED <<modelTensors, drvFrame, epoch, batch_idx, val_metric,
                   test_metric, best_val_metric, best_test_metric, history>>

\* optimizer.step(): every held tensor with a gradient moves against it
OptimizerStep ==
    /\ weight' = StepTensor("weight", weight)
    /\ bias' = StepTensor("bias", bias)
    /\ fc' = [weight |-> StepTensor("fc.weight", fc.weight),
              bias |-> StepTensor("fc.bias", fc.bias)]
    /\ mean' = StepTensor("mean", mean)
    /\ std' = StepTensor("std", std)
    /\ grad_fresh' = FALSE

\* train(): optimizer.step(), then the next batch or the return
TrainStep ==
    /\ drv_pc = "step"
    /\ OptimizerStep
    /\ IF batch_idx < TrainBatches
       THEN batch_idx' = batch_idx + 1 /\ drv_pc' = "train_forward"
       ELSE batch_idx' = batch_idx /\ drv_pc' = "test_train"
    /\ UNCHANGED <<drvFrame, epoch, grad, val_metric,
                   test_metric, best_val_metric, best_test_metric, history>>

\* train_metric = test(train_loader): under no_grad, only printed
TestTrain ==
    /\ drv_pc = "test_train"
    /\ drv_pc' = "test_val"
    /\ UNCHANGED <<modelTensors, drvFrame, epoch, batch_idx, grad, grad_fresh, val_metric,
                   test_metric, best_val_metric, best_test_metric, history>>

\* val_metric = test(val_loader)
TestVal(acc) ==
    /\ drv_pc = "test_val"
    /\ val_metric' = acc
    /\ drv_pc' = "test_test"
    /\ UNCHANGED <<modelTensors, drvFrame, epoch, batch_idx, grad, grad_fresh,
                   test_metric, best_val_metric, best_test_metric, history>>

\* test_metric = test(test_loader)
TestTest(acc) ==
    /\ drv_pc = "test_test"
    /\ test_metric' = acc
    /\ drv_pc' = "update_best"
    /\ UNCHANGED <<modelTensors, drvFrame, epoch, batch_idx, grad, grad_fresh,
                   val_metric, best_val_metric, best_test_metric, history>>

\* buggy variant: a tie replaces the stored pair
DoesImproveOrTie(v, best) == ~QGreater(best, v)

\* val_metric > best_val_metric
DoesImprove(v, best) == QGreater(v, best)

\* if val_metric > best_val_metric: keep the pair
UpdateBest ==
    /\ drv_pc = "update_best"
    /\ IF DoesImprove(val_metric, best_val_metric)
       THEN best_val_metric' = val_metric /\ best_test_metric' = test_metric
       ELSE UNCHANGED <<best_val_metric, best_test_metric>>
    /\ history' = Append(history, [val |-> val_metric, test |-> test_metric,
                                   best_val |-> best_val_metric',
                                   best_test |-> best_test_metric'])
    /\ drv_pc' = "epoch_step"
    /\ UNCHANGED <<modelTensors, drvFrame, epoch, batch_idx, grad, grad_fresh,
                   val_metric, test_metric>>

\* the optimizer.step() that ends the loop body, then the next epoch or the end
EpochStep ==
    /\ drv_pc = "epoch_step"
    /\ OptimizerStep
    /\ IF epoch < Epochs
       THEN epoch' = epoch + 1 /\ batch_idx' = 1 /\ drv_pc' = "train_forward"
       ELSE epoch' = epoch /\ batch_idx' = batch_idx /\ drv_pc' = "done"
    /\ UNCHANGED <<drvFrame, grad, val_metric,
                   test_metric, best_val_metric, best_test_metric, history>>

DrvBackward == \E g \in GradVals : Backward(g)

DrvTestVal == \E acc \in Accuracies(ValSize) : TestVal(acc)

DrvTestTest == \E acc \in Accuracies(TestSize) : TestTest(acc)

DrvNext ==
    \/ TrainForward
    \/ ZeroGrad
    \/ DrvBackward
    \/ TrainStep
    \/ TestTrain
    \/ DrvTestVal
    \/ DrvTestTest
    \/ UpdateBest
    \/ EpochStep

SpecDriver == DrvInit /\ [][DrvNext]_vars

(***************************************************************************)
(* Claims about LinearEncoder (checked under SpecEncoder)                  *)
(***************************************************************************)
Called == enc_pc = "called"

\* the column count of a 2-D [batch, n] or 3-D [batch, n, 1] raw input
IsBatchInput(x) == IsTensor(x) /\ Rank(x) \in {2, 3}

NumStats == Len(stats_list)

MinOf(a, b) == IF a <= b THEN a ELSE b

\* the raw value of row bt that output column c is computed from
RawAt(x, bt, c) ==
    LET col == IF x.shape[2] = 1 THEN 1 ELSE c
    IN  IF Rank(x) = 2 THEN x.at[<<bt, col>>] ELSE x.at[<<bt, col, 1>>]

\* C1: an encode_forward call whose input column count differs from the number
\* of statistics records fails; it never returns an embedding.
C1_MismatchFails ==
    (Called /\ IsBatchInput(feat) /\ feat.shape[2] # NumStats) => result = Err

\* C2: with n = len(stats_list), a 2-D [batch, n] or 3-D [batch, n, 1] input
\* yields a tensor of shape exactly [batch, n, out_dim].
C2_OutputShape ==
    (Called /\ (feat.shape = <<feat.shape[1], NumStats>>
                \/ feat.shape = <<feat.shape[1], NumStats, 1>>))
        => (IsTensor(result) /\ result.shape = <<feat.shape[1], NumStats, out_dim>>)

\* C2 witness: a 3-D input of two columns and a full batch, out_dim = 2, returned
C2_Witness ==
    /\ Called
    /\ NumStats = 2
    /\ out_dim = 2
    /\ feat.shape = <<MaxBatch, 2, 1>>
    /\ IsTensor(result)

\* C3: a statistics list whose length differs from the declared column count
\* makes construction raise, so no encoder that can be called comes out of it.
C3_LengthMismatchRaises ==
    (enc_pc # "new" /\ NumStats # num_columns) => enc_pc = "failed"

\* a tensor with every element of its column i (first axis) set to v
ReplaceColumn(t, i, v) ==
    MkTensor(t.shape, [idx \in Indices(t.shape) |-> IF idx[1] = i THEN v ELSE t.at[idx]])

\* a raw batch with every value of its column i (second axis) set to v
ReplaceFeatColumn(x, i, v) ==
    MkTensor(x.shape, [idx \in Indices(x.shape) |-> IF idx[2] = i THEN v ELSE x.at[idx]])

AltParam == QInt(5)

AltRaw == QInt(35)

\* the elements of every encoder column j # i agree in two outputs
SameOtherColumns(r1, r2, i, cols) ==
    /\ IsTensor(r2)
    /\ r2.shape = r1.shape
    /\ \A idx \in Indices(r1.shape) :
          (idx[2] # i /\ idx[2] <= cols) => r2.at[idx] = r1.at[idx]

\* C4: for the same raw input, changing weight[i] or bias[i] leaves the output
\* of every encoder column j # i unchanged, and so does changing feat[:, i].
C4_ColumnIndependence ==
    (Called /\ IsBatchInput(feat) /\ IsTensor(result)) =>
        /\ \A i \in 1..NumStats :
              /\ SameOtherColumns(result,
                     EncodeForward(feat, mean, std, ReplaceColumn(weight, i, AltParam),
                                   bias, in_dim, activate), i, NumStats)
              /\ SameOtherColumns(result,
                     EncodeForward(feat, mean, std, weight,
                                   ReplaceColumn(bias, i, AltParam), in_dim, activate),
                     i, NumStats)
        /\ \A i \in 1..feat.shape[2] :
              SameOtherColumns(result,
                  EncodeForward(ReplaceFeatColumn(feat, i, AltRaw), mean, std,
                                weight, bias, in_dim, activate),
                  i, MinOf(feat.shape[2], NumStats))

\* C4 witness: two columns, and changing weight[1] does change column 1's output
C4_Witness ==
    /\ Called
    /\ feat.shape = <<MaxBatch, 2>>
    /\ NumStats = 2
    /\ in_dim = 2
    /\ IsTensor(result)
    /\ LET r2 == EncodeForward(feat, mean, std, ReplaceColumn(weight, 1, AltParam),
                                bias, in_dim, activate)
       IN  \E idx \in Indices(result.shape) : idx[2] = 1 /\ r2.at[idx] # result.at[idx]

AllOnes(t) == \A idx \in Indices(t.shape) : t.at[idx] = QInt(1)

AllZero(t) == \A idx \in Indices(t.shape) : t.at[idx] = QInt(0)

\* the scenario of C5: one column "age" with MEAN 30, STD 10, in_dim 1, no
\* activation, weight 1 and bias 0
AgeScenario ==
    /\ Called
    /\ stats_list = <<[MEAN |-> 30, STD |-> 10]>>
    /\ in_dim = 1
    /\ activate = None
    /\ AllOnes(weight)
    /\ AllZero(bias)
    /\ feat.shape \in {<<MaxBatch, 1>>, <<MaxBatch, 1, 1>>}

\* C5: in the age scenario the raw value 40 standardizes to 1.0 within 1e-6 and
\* every embedding dimension of that column is 1.0 within 1e-6.
C5_AgeForty ==
    AgeScenario =>
        \A bt \in 1..feat.shape[1] :
            RawAt(feat, bt, 1) = QInt(40) =>
                /\ IsTensor(result)
                /\ QWithin(Standardize(feat, mean, std).at[<<bt, 1, 1>>], 1, EpsDen)
                /\ \A l \in 1..out_dim : QWithin(result.at[<<bt, 1, l>>], 1, EpsDen)

\* C5 witness: the age scenario was run on a batch holding 40, out_dim = 2
C5_Witness ==
    /\ AgeScenario
    /\ MaxBatch >= 1
    /\ out_dim = 2
    /\ RawAt(feat, 1, 1) = QInt(40)
    /\ IsTensor(result)

\* C10: with STD >= 0 everywhere the std buffer is STD + 1e-6 > 0 in every
\* column; a call never divides by zero, a call with matching column count
\* raises nothing, and a raw value equal to its column's mean standardizes to 0.
C10_ZeroVariance ==
    (enc_pc \in {"ready", "called"} /\ \A c \in 1..NumStats : stats_list[c].STD >= 0) =>
        /\ std.shape = <<NumStats>>
        /\ \A c \in 1..NumStats :
              /\ std.at[<<c>>] = Q(stats_list[c].STD * EpsDen + 1, EpsDen)
              /\ std.at[<<c>>].n > 0
              /\ std.at[<<c>>].d > 0
        /\ (IsBatchInput(feat) /\ feat.shape[2] = NumStats) =>
              (IsTensor(result) /\ \A idx \in Indices(result.shape) : IsFinite(result.at[idx]))
        /\ IsBatchInput(feat) =>
              LET z == Standardize(feat, mean, std)
              IN  IsTensor(z) =>
                    \A idx \in Indices(z.shape) :
                        /\ IsFinite(z.at[idx])
                        /\ RawAt(feat, idx[1], idx[2])
                             = mean.at[BIndex(mean.shape, <<idx[2]>>)]
                           => QIsZero(z.at[idx])

\* C10 witness: a zero-variance column received its own mean and the call returned
C10_Witness ==
    /\ Called
    /\ NumStats = 2
    /\ stats_list[1] = [MEAN |-> 30, STD |-> 10]
    /\ stats_list[2] = [MEAN |-> 40, STD |-> 0]
    /\ feat.shape = <<MaxBatch, 2>>
    /\ MaxBatch >= 1
    /\ feat.at[<<1, 2>>] = QInt(40)
    /\ IsTensor(result)

(***************************************************************************)
(* Claims about the driver (checked under SpecDriver)                      *)
(***************************************************************************)
\* C6: after post_init the mean and std buffers keep the values derived from
\* the statistics through every training batch, evaluation pass and the
\* epoch-end optimizer.step; only the trainable parameters move.
C6_BuffersFixed ==
    drv_pc # "idle" => (mean = MeanBuffer(stats_list) /\ std = StdBuffer(stats_list))

\* C6 witness: the run is over and every trainable parameter has moved
C6_Witness ==
    /\ drv_pc = "done"
    /\ weight # InitWeight(1, 1, HiddenDim, "ones")
    /\ bias # InitBias(1, HiddenDim)
    /\ fc \notin {InitFc(draw) : draw \in FcDraws}
    /\ mean = MeanBuffer(DriverStats)

\* C8: the parameters change only in the optimizer.step of a training batch,
\* which applies gradients of a backward pass that ran after the previous step;
\* nothing changes them between an epoch's evaluation and the next epoch.
C8_StepsFollowBackward ==
    [][ (<<weight, bias, fc>>' # <<weight, bias, fc>>)
            => (drv_pc = "step" /\ grad_fresh) ]_vars

QEqual(x, y) == x.n * y.d = y.n * x.d

\* the earliest epoch whose validation metric is the maximum so far
EarliestBest(h) ==
    CHOOSE e \in 1..Len(h) :
        /\ \A k \in 1..Len(h) : ~QGreater(h[k].val, h[e].val)
        /\ \A k \in 1..(e - 1) : QGreater(h[e].val, h[k].val)

\* the stored best validation metric never decreases, and an epoch whose
\* validation metric equals the stored one leaves the stored pair alone
BestIsMonotone ==
    \A k \in 2..Len(history) :
        /\ ~QGreater(history[k - 1].best_val, history[k].best_val)
        /\ QEqual(history[k].val, history[k - 1].best_val)
              => /\ history[k].best_val = history[k - 1].best_val
                 /\ history[k].best_test = history[k - 1].best_test

\* C9 as stated: after every epoch best_val_metric is the maximum validation
\* metric so far (0 when none exceeded 0) and best_test_metric is the test
\* metric of the earliest epoch that attained that maximum.
C9_BestPairAsStated ==
    history # <<>> =>
        /\ QEqual(best_val_metric, history[EarliestBest(history)].val)
        /\ QEqual(best_test_metric, history[EarliestBest(history)].test)
        /\ BestIsMonotone

\* C9 amended: best_test_metric is the test metric of the earliest epoch that
\* attained the maximum only when that maximum exceeds 0; while no validation
\* metric has exceeded 0 the pair keeps its initial values 0 and 0.
C9_BestPair ==
    history # <<>> =>
        /\ QEqual(best_val_metric, history[EarliestBest(history)].val)
        /\ IF QGreater(history[EarliestBest(history)].val, QInt(0))
           THEN QEqual(best_test_metric, history[EarliestBest(history)].test)
           ELSE best_test_metric = QInt(0) /\ best_val_metric = QInt(0)
        /\ BestIsMonotone

\* C9 witness: the second epoch ties the first one's positive validation metric
\* with another test metric, and the first pair is still stored
C9_Witness ==
    /\ Len(history) = 2
    /\ QGreater(history[1].val, QInt(0))
    /\ history[2].val = history[1].val
    /\ history[2].test # history[1].test
    /\ best_test_metric = history[1].test

====
